---- MODULE Spec2Model ----
(***************************************************************************)
(* A model of the ToSidewalk street-network engine (network.py, nodes.py). *)
(*                                                                         *)
(* The graph store is two dictionaries: node id -> Node and way id -> Way. *)
(* A Node carries the list way_ids and min_intersection_cardinality; a Way *)
(* carries the ordered list nids and a type.  Every operation of Network   *)
(* and OSM is an operator from a graph record to a graph record, so that a *)
(* handler which calls other handlers is the composition the code runs.    *)
(* A raised exception is the field exc of the graph record: it stops the   *)
(* statements that follow it and leaves what was already mutated in place. *)
(***************************************************************************)
EXTENDS Integers, Sequences, FiniteSets, TLC

VARIABLES nodes, ways, nextWay, exc, op, pc, steps, parallel, simp

vars == <<nodes, ways, nextWay, exc, op, pc, steps, parallel, simp>>

(***************************************************************************)
(* Bounds of the model.                                                    *)
(***************************************************************************)
MaxNode == 3
MaxWay == 3
MaxSteps == 2

Nids == 1..MaxNode
MaxLen == MaxNode
AnyWid == 1..(MaxWay + 1)

NoExc == "none"

(***************************************************************************)
(* Sequence and dictionary helpers (python list and dict primitives).      *)
(***************************************************************************)
Range(s) == {s[i] : i \in DOMAIN s}

Count(s, x) == Cardinality({i \in DOMAIN s : s[i] = x})

\* list.index(x): position of the first occurrence, 0 when there is none
IndexOf(s, x) ==
    IF x \in Range(s) THEN CHOOSE i \in DOMAIN s : s[i] = x /\ \A j \in 1..(i - 1) : s[j] # x
    ELSE 0

\* list.remove(x): drops the first occurrence only
RemoveFirst(s, x) ==
    LET i == IndexOf(s, x)
    IN  IF i = 0 THEN s ELSE SubSeq(s, 1, i - 1) \o SubSeq(s, i + 1, Len(s))

Reverse(s) == [i \in 1..Len(s) |-> s[Len(s) + 1 - i]]

Put(f, k, v) == [x \in (DOMAIN f) \cup {k} |-> IF x = k THEN v ELSE f[x]]

Del(f, k) == [x \in (DOMAIN f) \ {k} |-> f[x]]

Raise(g, e) == [g EXCEPT !.exc = e]

Ok(g) == g.exc = NoExc

(***************************************************************************)
(* nodes.py                                                                *)
(***************************************************************************)
\* Node.__init__: no incident ways, cardinality threshold 2
NewNode(lat, lng) == [way_ids |-> <<>>, card |-> 2, lat |-> lat, lng |-> lng]

\* Node.append_way
append_way(node, wid) == [node EXCEPT !.way_ids = Append(@, wid)]

\* Node.remove_way_id
remove_way_id(node, wid) ==
    IF wid \in Range(node.way_ids)
    THEN [node EXCEPT !.way_ids = RemoveFirst(@, wid)]
    ELSE node

\* Node.is_intersection
is_intersection(node) == Len(node.way_ids) >= node.card

(***************************************************************************)
(* ways.py is not part of the available sources.  The operations of Way    *)
(* and Ways (Street, Streets) used by network.py are taken from the        *)
(* description of the graph store: a dictionary of ways by id, a lookup    *)
(* that fails with KeyError (the exception network.py catches around its   *)
(* lookups), and list edits of a way's nids.                               *)
(***************************************************************************)
\* what a failed Ways.get / Ways.remove raises
WaysMiss == "KeyError"

\* Ways.add
ways_add(g, wid, way) == [g EXCEPT !.ways = Put(@, wid, way)]

\* Ways.remove
ways_remove(g, wid) ==
    IF wid \in DOMAIN g.ways THEN [g EXCEPT !.ways = Del(@, wid)] ELSE Raise(g, WaysMiss)

\* Way.remove_node: the way shrinks its sequence
way_remove_node(nids, nid) == SelectSeq(nids, LAMBDA x : x # nid)

\* Way.swap_nodes: occurrences of nid_from become nid_to
way_swap_nodes(nids, from, to) == [i \in 1..Len(nids) |-> IF nids[i] = from THEN to ELSE nids[i]]

\* Street(wid, nids, type)
Street(nids, type) == [nids |-> nids, type |-> type]

(***************************************************************************)
(* network.py: class Network                                               *)
(***************************************************************************)
\* try: ... except e: pass
Catch(g, e) == IF g.exc = e THEN [g EXCEPT !.exc = NoExc] ELSE g

\* Network.add_node
add_node(g, nid, node) ==
    IF ~Ok(g) THEN g ELSE [g EXCEPT !.nodes = Put(@, nid, node)]

\* the loop of Network.add_way: self.nodes.get(nid).way_ids.append(way.id)
RECURSIVE AddWayLoop(_, _, _, _)
AddWayLoop(g, wid, nids, i) ==
    IF i > Len(nids) \/ ~Ok(g) THEN g
    ELSE IF nids[i] \notin DOMAIN g.nodes THEN Raise(g, "AttributeError")
    ELSE AddWayLoop([g EXCEPT !.nodes[nids[i]] = append_way(@, wid)], wid, nids, i + 1)

\* Network.add_way
add_way(g, wid, way) ==
    IF ~Ok(g) THEN g ELSE AddWayLoop(ways_add(g, wid, way), wid, way.nids, 1)

\* Street(None, nids, type) followed by add_way: the new way takes an unused id
add_new_way(g, nids, type) ==
    IF ~Ok(g) THEN g
    ELSE add_way([g EXCEPT !.nextWay = @ + 1], g.nextWay, Street(nids, type))

\* the loop of Network.remove_node
RECURSIVE RemoveNodeLoop(_, _, _, _)
RemoveNodeLoop(g, nid, wids, i) ==
    IF i > Len(wids) \/ ~Ok(g) THEN g
    ELSE IF wids[i] \notin DOMAIN g.ways THEN Raise(g, WaysMiss)
    ELSE RemoveNodeLoop([g EXCEPT !.ways[wids[i]].nids = way_remove_node(@, nid)],
                        nid, wids, i + 1)

\* Network.remove_node
remove_node(g, nid) ==
    IF ~Ok(g) THEN g
    ELSE IF nid \notin DOMAIN g.nodes THEN Raise(g, "AttributeError")
    ELSE LET g1 == RemoveNodeLoop(g, nid, g.nodes[nid].way_ids, 1)
         IN  IF Ok(g1) THEN [g1 EXCEPT !.nodes = Del(@, nid)] ELSE g1

\* the loop of Network.remove_way
RECURSIVE RemoveWayLoop(_, _, _, _)
RemoveWayLoop(g, wid, nids, i) ==
    IF i > Len(nids) \/ ~Ok(g) THEN g
    ELSE IF nids[i] \notin DOMAIN g.nodes THEN Raise(g, "AttributeError")
    ELSE LET node == remove_way_id(g.nodes[nids[i]], wid)
             g1 == IF Len(node.way_ids) = 0
                   THEN [g EXCEPT !.nodes = Del(@, nids[i])]
                   ELSE [g EXCEPT !.nodes[nids[i]] = node]
         IN  RemoveWayLoop(g1, wid, nids, i + 1)

\* Network.remove_way
remove_way(g, wid) ==
    IF ~Ok(g) THEN g
    ELSE IF wid \notin DOMAIN g.ways THEN Raise(g, WaysMiss)
    ELSE LET g1 == RemoveWayLoop(g, wid, g.ways[wid].nids, 1)
         IN  IF Ok(g1) THEN ways_remove(g1, wid) ELSE g1

\* the loop of Network.join_ways
RECURSIVE JoinWaysLoop(_, _, _, _, _)
JoinWaysLoop(g, w1, w2, nids, i) ==
    IF i > Len(nids) \/ ~Ok(g) THEN g
    ELSE IF nids[i] \notin DOMAIN g.nodes THEN Raise(g, "AttributeError")
    ELSE JoinWaysLoop([g EXCEPT !.nodes[nids[i]] = remove_way_id(append_way(@, w1), w2)],
                      w1, w2, nids, i + 1)

\* the try block of Network.join_ways
JoinWaysTry(g, w1, w2) ==
    IF w2 \notin DOMAIN g.ways THEN Raise(g, WaysMiss)
    ELSE LET g1 == JoinWaysLoop(g, w1, w2, g.ways[w2].nids, 1)
         IN  IF Ok(g1) THEN ways_remove(g1, w2) ELSE g1

\* Network.join_ways
join_ways(g, w1, w2) ==
    IF ~Ok(g) THEN g ELSE Catch(JoinWaysTry(g, w1, w2), "KeyError")

\* the loop of Network.swap_nodes
RECURSIVE SwapNodesLoop(_, _, _, _, _)
SwapNodesLoop(g, from, to, wids, i) ==
    IF i > Len(wids) \/ ~Ok(g) THEN g
    ELSE IF wids[i] \notin DOMAIN g.ways THEN Raise(g, WaysMiss)
    ELSE SwapNodesLoop([g EXCEPT !.ways[wids[i]].nids = way_swap_nodes(@, from, to)],
                       from, to, wids, i + 1)

\* Network.swap_nodes
swap_nodes(g, from, to) ==
    IF ~Ok(g) THEN g
    ELSE IF from \notin DOMAIN g.nodes \/ g.nodes[from].way_ids = <<>> THEN g
    ELSE LET g1 == SwapNodesLoop(g, from, to, g.nodes[from].way_ids, 1)
         IN  IF Ok(g1) THEN [g1 EXCEPT !.nodes = Del(@, from)] ELSE g1

(***************************************************************************)
(* network.py: class OSM                                                   *)
(***************************************************************************)
\* python slice s[lo:hi], lo and hi counted from 0
Slice(s, lo, hi) == IF hi <= lo THEN <<>> ELSE SubSeq(s, lo + 1, hi)

\* the orders in which a dictionary's values may be listed
RECURSIVE Perms(_)
Perms(S) ==
    IF S = {} THEN {<<>>}
    ELSE UNION {{<<x>> \o p : p \in Perms(S \ {x})} : x \in S}

\* intersection_indices of split_streets: way.nids.index(nid), counted from 0,
\* for every nid of the way that is an intersection
IntersectionIndices(g, nids) ==
    LET hits == SelectSeq(nids, LAMBDA nid : is_intersection(g.nodes[nid]))
    IN  [i \in 1..Len(hits) |-> IndexOf(nids, hits[i]) - 1]

\* the loop of split_streets with the slice way.nids[prev_idx:idx], which
\* leaves the junction out of the sub-way that ends at it
RECURSIVE SplitLoopOpenSlice(_, _, _, _, _)
SplitLoopOpenSlice(g, way, idxs, i, prev) ==
    IF i > Len(idxs) \/ ~Ok(g) THEN [g |-> g, prev |-> prev]
    ELSE IF idxs[i] # 0 /\ idxs[i] # Len(way.nids)
    THEN SplitLoopOpenSlice(add_new_way(g, Slice(way.nids, prev, idxs[i]), way.type),
                            way, idxs, i + 1, idxs[i])
    ELSE SplitLoopOpenSlice(g, way, idxs, i + 1, prev)

\* for idx in intersection_indices: ... of split_streets
RECURSIVE SplitLoop(_, _, _, _, _)
SplitLoop(g, way, idxs, i, prev) ==
    IF i > Len(idxs) \/ ~Ok(g) THEN [g |-> g, prev |-> prev]
    ELSE IF idxs[i] # 0 /\ idxs[i] # Len(way.nids)
    THEN SplitLoop(add_new_way(g, Slice(way.nids, prev, idxs[i] + 1), way.type),
                   way, idxs, i + 1, idxs[i])
    ELSE SplitLoop(g, way, idxs, i + 1, prev)

\* the body of split_streets for one way
SplitWay(g, wid) ==
    IF ~Ok(g) THEN g
    ELSE LET way == g.ways[wid]
             nids == way.nids
         IN  IF ~(Range(nids) \subseteq DOMAIN g.nodes) THEN Raise(g, "AttributeError")
             ELSE LET idxs == IntersectionIndices(g, nids)
                      n == Len(idxs)
                      last == Len(nids) - 1
                  IN  IF n = 0 THEN g
                      ELSE IF n = 1 /\ (idxs[1] = 0 \/ idxs[1] = last) THEN g
                      ELSE IF n = 2 /\ idxs[1] = 0 /\ idxs[2] = last THEN g
                      ELSE IF n = 2 /\ idxs[2] = 0 /\ idxs[1] = last THEN g
                      ELSE LET r == SplitLoop(g, way, idxs, 1, 0)
                           IN  remove_way(add_new_way(r.g, Slice(nids, r.prev, Len(nids)),
                                                      way.type), wid)

\* OSM.split_streets, the ways listed in the given order
RECURSIVE split_streets(_, _, _)
split_streets(g, order, i) ==
    IF i > Len(order) \/ ~Ok(g) THEN g
    ELSE split_streets(SplitWay(g, order[i]), order, i + 1)

\* the loop over the ways of OSM.update_ways
RECURSIVE UpdateWaysLoop(_, _, _)
UpdateWaysLoop(g, order, i) ==
    IF i > Len(order) \/ ~Ok(g) THEN g
    ELSE UpdateWaysLoop(AddWayLoop(g, order[i], g.ways[order[i]].nids, 1), order, i + 1)

\* OSM.update_ways without the loop that empties way_ids and sets the threshold
UpdateWaysNoReset(g, order) ==
    IF ~Ok(g) THEN g ELSE UpdateWaysLoop(g, order, 1)

\* OSM.update_ways, the ways listed in the given order
update_ways(g, order) ==
    IF ~Ok(g) THEN g
    ELSE UpdateWaysLoop(
             [g EXCEPT !.nodes = [n \in DOMAIN g.nodes |->
                                    [g.nodes[n] EXCEPT !.way_ids = <<>>, !.card = 3]]],
             order, 1)

\* combined_nids of clean_street_segmentation
CombinedNids(n1, n2, nid) ==
    LET i1 == IndexOf(n1, nid) - 1
        i2 == IndexOf(n2, nid) - 1
    IN  IF i1 = 0 /\ i2 = 0 THEN Reverse(Slice(n1, 1, Len(n1))) \o n2
        ELSE IF i1 # 0 /\ i2 = 0 THEN Slice(n1, 0, Len(n1) - 1) \o n2
        ELSE IF i1 = 0 /\ i2 # 0 THEN Slice(n2, 0, Len(n2) - 1) \o n1
        ELSE n1 \o Reverse(Slice(n2, 0, 2))

\* the body of clean_street_segmentation for one node of the listing
CleanNode(g, nid) ==
    IF ~Ok(g) THEN g
    ELSE IF nid \notin DOMAIN g.nodes THEN g
    ELSE IF Len(g.nodes[nid].way_ids) # 2 THEN g
    ELSE LET w1 == g.nodes[nid].way_ids[1]
             w2 == g.nodes[nid].way_ids[2]
         IN  IF ~({w1, w2} \subseteq DOMAIN g.ways) THEN Raise(g, WaysMiss)
             ELSE IF nid \notin Range(g.ways[w1].nids) \/ nid \notin Range(g.ways[w2].nids)
             THEN Raise(g, "ValueError")
             ELSE remove_way(
                      remove_way(
                          add_new_way(g, CombinedNids(g.ways[w1].nids, g.ways[w2].nids, nid),
                                      "footway"),
                          w1),
                      w2)

\* OSM.clean_street_segmentation, the nodes listed in the given order
RECURSIVE clean_street_segmentation(_, _, _)
clean_street_segmentation(g, order, i) ==
    IF i > Len(order) \/ ~Ok(g) THEN g
    ELSE clean_street_segmentation(CleanNode(g, order[i]), order, i + 1)

(***************************************************************************)
(* Geometry.  The streets modelled are those of one corridor: the nodes    *)
(* lie on rows less than a buffer width (0.00009 degrees) apart, so a      *)
(* node's longitude decides projections, overlaps and distances and every  *)
(* chord has the corridor's bearing to well within 10 degrees; a node's    *)
(* latitude (its row) shows only in the bearing of a way.                  *)
(***************************************************************************)
Min(a, b) == IF a <= b THEN a ELSE b
Max(a, b) == IF a >= b THEN a ELSE b
SetMin(S) == CHOOSE x \in S : \A y \in S : x <= y
SetMax(S) == CHOOSE x \in S : \A y \in S : x >= y

\* python s[i], i counted from 0
At(s, i) == s[i + 1]

Last(s) == s[Len(s)]

\* Node.location()
Location(g, nid) == <<g.nodes[nid].lat, g.nodes[nid].lng>>

\* the interval of longitudes the buffer polygon of a chord covers
PolyLo(p) == Min(p[1][2], p[2][2])
PolyHi(p) == Max(p[1][2], p[2][2])

\* pair_poly[0].intersects(pair_poly[1])
Intersects(p, q) == PolyLo(p) <= PolyHi(q) /\ PolyLo(q) <= PolyHi(p)

\* street_polygons.index(poly): the first polygon with the same coordinates
PolyIndex(polys, i) == CHOOSE j \in 1..i : polys[j] = polys[i] /\ \A k \in 1..(j - 1) : polys[k] # polys[i]

\* abs(math.degrees(shared_node.angle_to(adj_node))) to the nearest right angle
AbsAngle(g, shared, adj) ==
    LET dlng == g.nodes[adj].lng - g.nodes[shared].lng
        dlat == g.nodes[adj].lat - g.nodes[shared].lat
    IN  IF dlng < 0 THEN 180 ELSE IF dlng = 0 /\ dlat # 0 THEN 90 ELSE 0

\* the filter of find_parallel_street_segments for one candidate pair and one
\* choice of the shared node: "keep", "drop" or the exception raised
FilterOne(g, n0, n1, shared) ==
    LET first == IndexOf(n0, shared) = 1 /\ IndexOf(n1, shared) = 1
    IN  IF Len(n0) < 2 \/ Len(n1) < 2 THEN "IndexError"
        ELSE LET adj1 == IF first THEN n0[2] ELSE n0[Len(n0) - 1]
                 adj2 == IF first THEN n1[2] ELSE n1[Len(n1) - 1]
             IN  IF ~({shared, adj1, adj2} \subseteq DOMAIN g.nodes) THEN "AttributeError"
                 ELSE IF Max(AbsAngle(g, shared, adj1), AbsAngle(g, shared, adj2))
                           - Min(AbsAngle(g, shared, adj1), AbsAngle(g, shared, adj2)) > 90
                 THEN "drop" ELSE "keep"

\* the outcomes of the filter for one candidate pair, over the choices of
\* list(shared_nids)[0]
FilterOutcomes(g, n0, n1) ==
    LET shared == Range(n0) \cap Range(n1)
    IN  IF shared = {} THEN {"keep"} ELSE {FilterOne(g, n0, n1, s) : s \in shared}

\* parallel_pairs: the index pairs of the polygons that intersect, in the
\* order of combinations(street_polygons, 2)
RECURSIVE ParallelPairs(_, _, _)
ParallelPairs(polys, i, j) ==
    IF i >= Len(polys) THEN <<>>
    ELSE IF j > Len(polys) THEN ParallelPairs(polys, i + 1, i + 2)
    ELSE (IF Intersects(polys[i], polys[j])
          THEN <<(<<PolyIndex(polys, i), PolyIndex(polys, j)>>)>> ELSE <<>>)
         \o ParallelPairs(polys, i, j + 1)

\* the filter loop: the lists of way-id pairs it can return, and the
\* exceptions it can raise
RECURSIVE FilterLoop(_, _, _, _)
FilterLoop(g, streets, cand, i) ==
    IF i > Len(cand) THEN {[exc |-> NoExc, pairs |-> <<>>]}
    ELSE LET w0 == streets[cand[i][1]]
             w1 == streets[cand[i][2]]
             outs == FilterOutcomes(g, g.ways[w0].nids, g.ways[w1].nids)
             rest == FilterLoop(g, streets, cand, i + 1)
         IN  UNION {IF o = "keep"
                    THEN {IF r.exc = NoExc
                          THEN [r EXCEPT !.pairs = <<(<<w0, w1>>)>> \o @] ELSE r : r \in rest}
                    ELSE IF o = "drop" THEN rest
                    ELSE {[exc |-> o, pairs |-> <<>>]} : o \in outs}

\* OSM.find_parallel_street_segments, the ways listed in the given order
find_parallel_street_segments(g, streets) ==
    IF \E i \in DOMAIN streets : g.ways[streets[i]].nids = <<>>
    THEN {[exc |-> "IndexError", pairs |-> <<>>]}
    ELSE IF \E i \in DOMAIN streets :
              ~({g.ways[streets[i]].nids[1], Last(g.ways[streets[i]].nids)} \subseteq DOMAIN g.nodes)
    THEN {[exc |-> "AttributeError", pairs |-> <<>>]}
    ELSE LET polys == [i \in DOMAIN streets |->
                         <<Location(g, g.ways[streets[i]].nids[1]),
                           Location(g, Last(g.ways[streets[i]].nids))>>]
         IN  FilterLoop(g, streets, ParallelPairs(polys, 1, 2), 1)

(***************************************************************************)
(* find_parallel_street_segments on the plane: nodes a buffer width or     *)
(* more apart, bearings in whole degrees.  Two buffer polygons intersect   *)
(* exactly when the chords they are drawn around meet.                     *)
(***************************************************************************)
Abs(x) == IF x >= 0 THEN x ELSE 0 - x

\* math.degrees(math.atan2(y, x)) of a displacement along an axis or a diagonal
Atan2Deg(y, x) ==
    IF y = 0 THEN (IF x < 0 THEN 180 ELSE 0)
    ELSE IF x = 0 THEN (IF y > 0 THEN 90 ELSE 0 - 90)
    ELSE IF x > 0 THEN (IF y > 0 THEN 45 ELSE 0 - 45)
    ELSE (IF y > 0 THEN 135 ELSE 0 - 135)

\* math.degrees(self.angle_to(node))
angle_to(g, self, node) ==
    Atan2Deg(g.nodes[node].lat - g.nodes[self].lat, g.nodes[node].lng - g.nodes[self].lng)

\* poly.angle of the polygon drawn around the chord p
PolyAngle(p) == Atan2Deg(p[2][1] - p[1][1], p[2][2] - p[1][2])

\* angle_diff without the wrap into [0, 180)
AngleDiffNoWrap(a, b) == a - b

\* angle_diff
AngleDiff(a, b) == ((a - b) + 360) % 180

\* on which side of the line from o to a the location b lies
Turn(o, a, b) == (a[2] - o[2]) * (b[1] - o[1]) - (a[1] - o[1]) * (b[2] - o[2])

\* the location p lies on the chord from a to b
Between(p, a, b) ==
    /\ Turn(a, b, p) = 0
    /\ Min(a[1], b[1]) <= p[1] /\ p[1] <= Max(a[1], b[1])
    /\ Min(a[2], b[2]) <= p[2] /\ p[2] <= Max(a[2], b[2])

\* pair_poly[0].intersects(pair_poly[1]) for the polygons of two chords
ChordsMeet(p, q) ==
    \/ /\ Turn(p[1], p[2], q[1]) * Turn(p[1], p[2], q[2]) < 0
       /\ Turn(q[1], q[2], p[1]) * Turn(q[1], q[2], p[2]) < 0
    \/ Between(q[1], p[1], p[2])
    \/ Between(q[2], p[1], p[2])
    \/ Between(p[1], q[1], q[2])
    \/ Between(p[2], q[1], q[2])

\* the test of a pair of polygons: they intersect and their angles are close
\* or close to opposite
PlaneCandidate(p, q) ==
    /\ ChordsMeet(p, q)
    /\ (AngleDiff(PolyAngle(p), PolyAngle(q)) < 10 \/ AngleDiff(PolyAngle(p), PolyAngle(q)) > 170)

\* parallel_pairs on the plane, in the order of combinations(street_polygons, 2)
RECURSIVE PlanePairs(_, _, _)
PlanePairs(polys, i, j) ==
    IF i >= Len(polys) THEN <<>>
    ELSE IF j > Len(polys) THEN PlanePairs(polys, i + 1, i + 2)
    ELSE (IF PlaneCandidate(polys[i], polys[j])
          THEN <<(<<PolyIndex(polys, i), PolyIndex(polys, j)>>)>> ELSE <<>>)
         \o PlanePairs(polys, i, j + 1)

\* the filter for one candidate pair and the shared node taken: "keep",
\* "drop" or the exception raised
PlaneFilterOne(g, n0, n1, shared) ==
    LET first == IndexOf(n0, shared) = 1 /\ IndexOf(n1, shared) = 1
    IN  IF Len(n0) < 2 \/ Len(n1) < 2 THEN "IndexError"
        ELSE LET adj1 == IF first THEN n0[2] ELSE n0[Len(n0) - 1]
                 adj2 == IF first THEN n1[2] ELSE n1[Len(n1) - 1]
             IN  IF ~({shared, adj1, adj2} \subseteq DOMAIN g.nodes) THEN "AttributeError"
                 ELSE IF Abs(Abs(angle_to(g, shared, adj1)) - Abs(angle_to(g, shared, adj2))) > 90
                 THEN "drop" ELSE "keep"

\* list(shared_nids)[0]: the node s when the two ways share it, any shared
\* node otherwise
SharedNid(n0, n1, s) ==
    IF s \in Range(n0) \cap Range(n1) THEN s ELSE SetMin(Range(n0) \cap Range(n1))

\* the filter loop on the plane
RECURSIVE PlaneFilterLoop(_, _, _, _, _)
PlaneFilterLoop(g, streets, cand, i, s) ==
    IF i > Len(cand) THEN [exc |-> NoExc, pairs |-> <<>>]
    ELSE LET w0 == streets[cand[i][1]]
             w1 == streets[cand[i][2]]
             n0 == g.ways[w0].nids
             n1 == g.ways[w1].nids
             o == IF Range(n0) \cap Range(n1) = {} THEN "keep"
                  ELSE PlaneFilterOne(g, n0, n1, SharedNid(n0, n1, s))
             rest == PlaneFilterLoop(g, streets, cand, i + 1, s)
         IN  IF o = "keep"
             THEN (IF rest.exc = NoExc THEN [rest EXCEPT !.pairs = <<(<<w0, w1>>)>> \o @] ELSE rest)
             ELSE IF o = "drop" THEN rest
             ELSE [exc |-> o, pairs |-> <<>>]

\* OSM.find_parallel_street_segments on the plane, the ways listed in the
\* given order and s the shared node that list(shared_nids)[0] gives
PlaneFind(g, streets, s) ==
    IF \E i \in DOMAIN streets : g.ways[streets[i]].nids = <<>>
    THEN [exc |-> "IndexError", pairs |-> <<>>]
    ELSE IF \E i \in DOMAIN streets :
              ~({g.ways[streets[i]].nids[1], Last(g.ways[streets[i]].nids)} \subseteq DOMAIN g.nodes)
    THEN [exc |-> "AttributeError", pairs |-> <<>>]
    ELSE LET polys == [i \in DOMAIN streets |->
                         <<Location(g, g.ways[streets[i]].nids[1]),
                           Location(g, Last(g.ways[streets[i]].nids))>>]
         IN  PlaneFilterLoop(g, streets, PlanePairs(polys, 1, 2), 1, s)

\* Way.getdirection (ways.py): the bearing from the first node of the way to
\* its last, as the displacement between them
Direction(g, wid) ==
    LET s == g.ways[wid].nids
    IN  <<g.nodes[Last(s)].lat - g.nodes[s[1]].lat, g.nodes[Last(s)].lng - g.nodes[s[1]].lng>>

\* way1.getdirection() == way2.getdirection()
SameDirection(g, w1, w2) ==
    LET d == Direction(g, w1)
        e == Direction(g, w2)
    IN  d[1] * e[2] = e[1] * d[2] /\ d[1] * e[1] + d[2] * e[2] >= 0

\* ways_appearing_multiple_times of join_connected_ways
Multiple(pairs) ==
    LET all == [i \in DOMAIN pairs |-> pairs[i][1]] \o [i \in DOMAIN pairs |-> pairs[i][2]]
    IN  {x \in Range(all) : Count(all, x) > 1}

\* the partners of a way found by scanning one of the two lists of ids:
\* ways_to_merge_1 (k = 1) or ways_to_merge_2 (k = 2)
RECURSIVE Partners(_, _, _, _)
Partners(pairs, way, k, i) ==
    IF i > Len(pairs) THEN <<>>
    ELSE (IF pairs[i][k] = way THEN <<pairs[i][3 - k]>> ELSE <<>>) \o Partners(pairs, way, k, i + 1)

\* short_ways_to_join
ShortWays(pairs, way) == Partners(pairs, way, 1, 1) \o Partners(pairs, way, 2, 1)

\* the try block of join_connected_ways without removed_ways.append(short_way)
JoinShortUnrecorded(j, first, short) ==
    IF ~({first, short} \subseteq DOMAIN j.g.ways) THEN [j EXCEPT !.g = Raise(@, WaysMiss)]
    ELSE IF SameDirection(j.g, first, short) THEN [j EXCEPT !.g = join_ways(@, first, short)]
    ELSE j

\* the try block of join_connected_ways for one short way
JoinShortTry(j, first, short) ==
    IF ~({first, short} \subseteq DOMAIN j.g.ways) THEN [j EXCEPT !.g = Raise(@, WaysMiss)]
    ELSE IF \E w \in {first, short} :
              j.g.ways[w].nids = <<>> THEN [j EXCEPT !.g = Raise(@, "IndexError")]
    ELSE IF \E w \in {first, short} :
              ~({j.g.ways[w].nids[1], Last(j.g.ways[w].nids)} \subseteq DOMAIN j.g.nodes)
    THEN [j EXCEPT !.g = Raise(@, "AttributeError")]
    ELSE IF SameDirection(j.g, first, short)
    THEN LET g1 == join_ways(j.g, first, short)
         IN  IF Ok(g1) THEN [g |-> g1, removed |-> Append(j.removed, short)]
             ELSE [j EXCEPT !.g = g1]
    ELSE j

\* for short_way in short_ways_to_join
RECURSIVE JoinShortLoop(_, _, _)
JoinShortLoop(j, short, i) ==
    IF i > Len(short) \/ ~Ok(j.g) THEN j
    ELSE IF short[i] = short[1] THEN JoinShortLoop(j, short, i + 1)
    ELSE LET j1 == JoinShortTry(j, short[1], short[i])
         IN  JoinShortLoop([j1 EXCEPT !.g = Catch(@, "KeyError")], short, i + 1)

\* for way in ways_appearing_multiple_times, the set listed in the given order
RECURSIVE JoinLongLoop(_, _, _, _)
JoinLongLoop(j, pairs, order, i) ==
    IF i > Len(order) \/ ~Ok(j.g) THEN j
    ELSE JoinLongLoop(JoinShortLoop(j, ShortWays(pairs, order[i]), 1), pairs, order, i + 1)

\* OSM.join_connected_ways: the graph it leaves and the list it returns
join_connected_ways(g, pairs, order) ==
    LET j == JoinLongLoop([g |-> g, removed |-> <<>>], pairs, order, 1)
    IN  [g |-> j.g,
         pairs |-> IF Ok(j.g)
                   THEN SelectSeq(pairs, LAMBDA p : p[1] \notin Range(j.removed)
                                                   /\ p[2] \notin Range(j.removed))
                   ELSE <<>>]

\* np.dot(n.vector(), base_vector) of segment_parallel_streets, base_vector
\* running from the first node of street_pair[0] to its last
Projection(g, n0, nid) ==
    LET dlng == g.nodes[Last(n0)].lng - g.nodes[n0[1]].lng
        dlat == g.nodes[Last(n0)].lat - g.nodes[n0[1]].lat
    IN  IF dlng > 0 THEN g.nodes[nid].lng
        ELSE IF dlng < 0 THEN 0 - g.nodes[nid].lng
        ELSE IF dlat > 0 THEN g.nodes[nid].lat
        ELSE IF dlat < 0 THEN 0 - g.nodes[nid].lat
        ELSE 0

\* sorted(...): a stable sort of a list by the key of its items
RECURSIVE SortBy(_, _)
SortBy(s, key) ==
    IF s = <<>> THEN <<>>
    ELSE LET done == SortBy(SubSeq(s, 1, Len(s) - 1), key)
             x == Last(s)
             k == Cardinality({i \in DOMAIN done : key[done[i]] <= key[x]})
         IN  SubSeq(done, 1, k) \o <<x>> \o SubSeq(done, k + 1, Len(done))

SegResult(g, subset, s1, s2) == [g |-> g, subset |-> subset, s1 |-> s1, s2 |-> s2]

SegRaise(g, e) == SegResult(Raise(g, e), <<>>, <<>>, <<>>)

\* a street cut into its beginning, overlapping and end segment:
\* [nids[:begin], nids[begin:end + 1], nids[end + 1:]]
Segmentation(nids, begin, end) ==
    <<Slice(nids, 0, begin), Slice(nids, begin, end + 1), Slice(nids, end + 1, Len(nids))>>

\* the beginning segment takes the first node the street has after it and
\* the end segment the last node the street has before it
\* (street2_segmentation; street1_segmentation when strict)
Anchor(seg, strict) ==
    LET s0 == IF seg[1] = <<>> THEN seg[1]
              ELSE IF seg[2] # <<>> THEN Append(seg[1], seg[2][1])
              ELSE IF seg[3] # <<>> /\ ~strict THEN Append(seg[1], seg[3][1])
              ELSE seg[1]
        s2 == IF seg[3] = <<>> THEN seg[3]
              ELSE IF seg[2] # <<>> THEN <<Last(seg[2])>> \o seg[3]
              ELSE IF s0 # <<>> /\ ~strict THEN <<Last(s0)>> \o seg[3]
              ELSE seg[3]
    IN  <<s0, seg[2], s2>>

\* the rest of segment_parallel_streets once street_pair[1] is oriented
SegmentOriented(g, p0, p1) ==
    LET n0 == g.ways[p0].nids
        n1 == g.ways[p1].nids
        key == [n \in Range(n0) \cup Range(n1) |-> Projection(g, n0, n)]
        all == SortBy(n0 \o n1, key)
        in0 == [i \in DOMAIN all |-> all[i] \in Range(n0)]
        switch == {i \in 0..(Len(all) - 2) : in0[i + 1] # in0[i + 2]}
    IN  IF switch = {} THEN SegRaise(g, "ValueError")
        ELSE LET begin == SetMin(switch)
                 end == SetMax(switch)
                 b1 == IF in0[begin + 1] THEN At(all, begin) ELSE At(all, begin + 1)
                 b2 == IF in0[begin + 1] THEN At(all, begin + 1) ELSE At(all, begin)
                 e1 == IF in0[end + 1] THEN At(all, end) ELSE At(all, end + 1)
                 e2 == IF in0[end + 1] THEN At(all, end + 1) ELSE At(all, end)
             IN  IF ~({b2, e2} \subseteq Range(n1)) THEN SegRaise(g, "ValueError")
                 ELSE LET seg1 == Segmentation(n0, IndexOf(n0, b1) - 1, IndexOf(n0, e1) - 1)
                          seg2 == Segmentation(n1, IndexOf(n1, b2) - 1, IndexOf(n1, e2) - 1)
                      IN  IF seg1[2] = <<>> /\ (seg1[1] # <<>> \/ seg1[3] # <<>>)
                          THEN SegRaise(g, "IndexError")
                          ELSE SegResult(g, Slice(all, begin, end),
                                         Anchor(seg1, TRUE), Anchor(seg2, FALSE))

\* OSM.segment_parallel_streets for the ways p0 and p1: the overlapping
\* segment and the two segmentations; street_pair[1] is reversed in place
\* when its nodes run against the base vector
segment_parallel_streets(g, p0, p1) ==
    LET n0 == g.ways[p0].nids
        n1 == g.ways[p1].nids
    IN  IF n0 = <<>> THEN SegRaise(g, "IndexError")
        ELSE IF ~({n0[1], Last(n0)} \subseteq DOMAIN g.nodes) THEN SegRaise(g, "AttributeError")
        ELSE IF n1 = <<>> THEN SegRaise(g, "IndexError")
        ELSE IF ~(Range(n0) \cup Range(n1) \subseteq DOMAIN g.nodes)
        THEN SegRaise(g, "AttributeError")
        ELSE LET key == [n \in Range(n1) |-> Projection(g, n0, n)]
             IN  IF n1[1] # SortBy(n1, key)[1]
                 THEN SegmentOriented([g EXCEPT !.ways[p1].nids = Reverse(n1)], p0, p1)
                 ELSE SegmentOriented(g, p0, p1)

\* Node(None, lat, lng): the new node takes an id no node of the graph has
FreshNode(g) ==
    SetMax({0} \cup DOMAIN g.nodes \cup UNION {Range(g.ways[w].nids) : w \in DOMAIN g.ways}) + 1

\* the type of Street(None, nids), a way made without a type (ways.py)
DefaultType == "footway"

\* the while loop of simplify: triangles are popped while
\* (len(heap) + 2) / N > num / den, and popping an empty heap ends the loop.
\* Every triangle of a corridor has an area below the grid's resolution; the
\* lowest index is taken as the root of the heap.
RECURSIVE SimplifyPops(_, _, _, _)
SimplifyPops(heap, N, num, den) ==
    IF (Cardinality(heap) + 2) * den > num * N /\ heap # {}
    THEN SimplifyPops(heap \ {SetMin(heap)}, N, num, den)
    ELSE heap

\* OSM.simplify(way_id, num / den)
simplify(g, wid, num, den) ==
    IF ~Ok(g) THEN g
    ELSE IF wid \notin DOMAIN g.ways THEN Raise(g, WaysMiss)
    ELSE LET nids == g.ways[wid].nids
             N == Len(nids)
         IN  IF ~(Range(nids) \subseteq DOMAIN g.nodes) THEN Raise(g, "AttributeError")
             ELSE IF N = 0 THEN Raise(g, "ZeroDivisionError")
             ELSE LET heap == SimplifyPops(1..(N - 2), N, num, den)
                      l == SelectSeq([i \in 1..N |-> i - 1], LAMBDA i : i \in heap)
                  IN  [g EXCEPT !.ways[wid].nids =
                         <<nids[1]>> \o [i \in DOMAIN l |-> At(nids, l[i])] \o <<Last(nids)>>]

\* utilities.area: the area of the triangle of three locations, doubled
Area(p, q, r) ==
    LET d == (q[2] - p[2]) * (r[1] - p[1]) - (r[2] - p[2]) * (q[1] - p[1])
    IN  IF d >= 0 THEN d ELSE 0 - d

\* Triangle(prev_idx, idx, next_idx) of simplify: the window is idx - 1 and
\* idx + 1 whatever was passed
Triangle(latlngs, idx) ==
    [prev |-> idx - 1, next |-> idx + 1,
     area |-> Area(At(latlngs, idx - 1), At(latlngs, idx), At(latlngs, idx + 1))]

\* Triangle.update_area
UpdateArea(latlngs, t, idx) ==
    [t EXCEPT !.area = Area(At(latlngs, t.prev), At(latlngs, idx), At(latlngs, t.next))]

\* the locals of simplify once the triangles are on the heap: nids are the ids
\* of the list nodes, dict keeps every triangle ever made, heap the indices
\* of those not yet popped
SimplifyLocals(g, wid, num, den) ==
    LET nids == g.ways[wid].nids
        latlngs == [i \in 1..Len(nids) |-> Location(g, nids[i])]
        idxs == 1..(Len(nids) - 2)
    IN  [wid |-> wid, nids |-> nids, N |-> Len(nids), num |-> num, den |-> den,
         latlngs |-> latlngs,
         dict |-> [i \in idxs |-> Triangle(latlngs, i)], heap |-> idxs]

\* float(len(heap) + 2) / len(latlngs) > threshold
SimplifyGoesOn(l) == (Cardinality(l.heap) + 2) * l.den > l.num * l.N

\* the triangles heappop may return: those of the least area
Smallest(l) == {i \in l.heap : \A j \in l.heap : l.dict[i].area <= l.dict[j].area}

\* the body of the while loop for the popped triangle idx: the triangles of
\* dict at idx + 1 and idx - 1 take over its window
Relink(l, idx) ==
    LET t == l.dict[idx]
        d1 == IF idx + 1 \in DOMAIN l.dict
              THEN [l.dict EXCEPT ![idx + 1] = UpdateArea(l.latlngs, [@ EXCEPT !.prev = t.prev], idx + 1)]
              ELSE l.dict
        d2 == IF idx - 1 \in DOMAIN d1
              THEN [d1 EXCEPT ![idx - 1] = UpdateArea(l.latlngs, [@ EXCEPT !.next = t.next], idx - 1)]
              ELSE d1
    IN  [l EXCEPT !.heap = @ \ {idx}, !.dict = d2]

\* new_nids without the statement that appends the last node
NewNidsOpenEnd(nids, heap) ==
    LET l == SelectSeq([i \in 1..Len(nids) |-> i - 1], LAMBDA i : i \in heap)
    IN  <<nids[1]>> \o [i \in DOMAIN l |-> At(nids, l[i])]

\* new_nids: the first node, the nodes of the triangles left on the heap in
\* the order of their indices, the last node
NewNids(nids, heap) ==
    LET l == SelectSeq([i \in 1..Len(nids) |-> i - 1], LAMBDA i : i \in heap)
    IN  <<nids[1]>> \o [i \in DOMAIN l |-> At(nids, l[i])] \o <<Last(nids)>>

\* new_position, new_node, self.add_node(new_node), new_street_nids.append:
\* the new node stands where node stands, to the resolution of the grid
MergeEmit(m, nid) ==
    LET id == FreshNode(m.g)
    IN  [m EXCEPT !.g = add_node(@, id, NewNode(m.g.nodes[nid].lat, m.g.nodes[nid].lng)),
                  !.new = Append(@, id)]

\* except IndexError: of the merge loop
MergeLast(m, nid) ==
    IF nid \notin DOMAIN m.g.nodes THEN [m EXCEPT !.g = Raise(@, "AttributeError")]
    ELSE IF ~m.normal THEN [m EXCEPT !.g = Raise(@, "NameError")]
    ELSE MergeEmit(m, nid)

\* the statements after the branch of the try block: v, v2, normal, new node
MergeOffset(m, nid, opp1, opp2) ==
    IF ~({nid, opp1, opp2} \subseteq DOMAIN m.g.nodes)
    THEN [m EXCEPT !.g = Raise(@, "AttributeError")]
    ELSE MergeEmit([m EXCEPT !.normal = TRUE], nid)

\* the body of "for nid in subset_nids" of merge_parallel_street_segments
MergeStep(m, nid, S1, S2, p1) ==
    IF nid = m.n1
    THEN LET a == [m EXCEPT !.i1 = @ + 1]
         IN  IF a.i1 >= Len(S1) THEN MergeLast(a, nid)
             ELSE LET b == [a EXCEPT !.n1 = At(S1, a.i1)]
                  IN  IF b.i2 + 1 >= Len(S2) THEN MergeLast(b, nid)
                      ELSE MergeOffset(b, nid, b.n2, At(S2, b.i2 + 1))
    ELSE LET a == [m EXCEPT !.i2 = @ + 1]
         IN  IF a.i2 >= Len(a.g.ways[p1].nids) THEN MergeLast(a, nid)
             ELSE LET b == [a EXCEPT !.n2 = At(a.g.ways[p1].nids, a.i2)]
                  IN  IF b.i1 + 1 >= Len(S1) THEN MergeLast(b, nid)
                      ELSE MergeOffset(b, nid, b.n1, At(S1, b.i1 + 1))

RECURSIVE MergeLoop(_, _, _, _, _, _)
MergeLoop(m, subset, i, S1, S2, p1) ==
    IF i > Len(subset) \/ ~Ok(m.g) THEN m
    ELSE MergeLoop(MergeStep(m, subset[i], S1, S2, p1), subset, i + 1, S1, S2, p1)

\* node_to[k]
NodeTo(subset, new, k) == IF k = Last(subset) THEN Last(new) ELSE new[1]

\* a beginning segment re-anchored: seg[-1] = node_to[seg[-1]], then add_way
AddLead(g, seg, subset, new) ==
    IF ~Ok(g) THEN g
    ELSE IF Last(seg) \notin {subset[1], Last(subset)} THEN Raise(g, "KeyError(node_to)")
    ELSE add_new_way(g, [seg EXCEPT ![Len(seg)] = NodeTo(subset, new, Last(seg))], DefaultType)

\* an end segment re-anchored: seg[0] = node_to[subset_nids[-1]], then add_way
AddTrail(g, seg, subset, new) ==
    IF ~Ok(g) THEN g
    ELSE add_new_way(g, [seg EXCEPT ![1] = Last(new)], DefaultType)

\* "Create streets from the unmerged nodes": the beginning segments
AddLeads(g, seg1, seg2, subset, new) ==
    LET L1 == seg1[1]
        L2 == seg2[1]
    IN  IF L1 # <<>> /\ L2 # <<>>
        THEN IF L1[1] = L2[1]
             THEN IF subset[1] \in Range(seg1[2]) THEN AddLead(g, L1, subset, new)
                  ELSE AddLead(g, L2, subset, new)
             ELSE AddLead(AddLead(g, L1, subset, new), L2, subset, new)
        ELSE IF L1 # <<>> THEN AddLead(g, L1, subset, new)
        ELSE IF L2 # <<>> THEN AddLead(g, L2, subset, new)
        ELSE g

\* "Create streets from the unmerged nodes": the end segments
AddTrails(g, seg1, seg2, subset, new) ==
    LET T1 == seg1[3]
        T2 == seg2[3]
    IN  IF T1 # <<>> /\ T2 # <<>>
        THEN IF Last(T1) = Last(T2)
             THEN IF Last(subset) \in Range(seg1[2]) THEN AddTrail(g, T1, subset, new)
                  ELSE AddTrail(g, T2, subset, new)
             ELSE AddTrail(AddTrail(g, T1, subset, new), T2, subset, new)
        ELSE IF T1 # <<>> THEN AddTrail(g, T1, subset, new)
        ELSE IF T2 # <<>> THEN AddTrail(g, T2, subset, new)
        ELSE g

\* the FIXME block of merge_parallel_street_segments, entered for a node nid
\* of a removed street that another way (parent_id) is attached to: node2 is
\* an id taken from parent.nids, and node2.vector() fails
Reattach(g, nid, parent) ==
    IF parent \notin DOMAIN g.ways THEN Raise(g, WaysMiss)
    ELSE IF nid \notin Range(g.ways[parent].nids) THEN Raise(g, "ValueError")
    ELSE IF IndexOf(g.ways[parent].nids, nid) = Len(g.ways[parent].nids)
    THEN Raise(g, "IndexError")
    ELSE Raise(g, "AttributeError")

\* for nid in self.ways.get(street_id).nids: ... for parent_id in node.way_ids
RECURSIVE ReattachLoop(_, _, _, _)
ReattachLoop(g, nids, i, removing) ==
    IF i > Len(nids) \/ ~Ok(g) THEN g
    ELSE IF nids[i] \notin DOMAIN g.nodes THEN Raise(g, "AttributeError")
    ELSE LET others == SelectSeq(g.nodes[nids[i]].way_ids, LAMBDA w : w \notin removing)
         IN  IF others # <<>> THEN Reattach(g, nids[i], others[1])
             ELSE ReattachLoop(g, nids, i + 1, removing)

\* for street_id in set(streets_to_remove), the set listed in the given order
RECURSIVE RemoveMerged(_, _, _)
RemoveMerged(g, order, i) ==
    IF i > Len(order) \/ ~Ok(g) THEN g
    ELSE IF order[i] \notin DOMAIN g.ways THEN Raise(g, WaysMiss)
    ELSE RemoveMerged(
             remove_way(ReattachLoop(g, g.ways[order[i]].nids, 1, Range(order)), order[i]),
             order, i + 1)

\* the body of "for pair in parallel_pairs" from "Merge streets" on
MergePair(x, p0, p1, sg, rev) ==
    LET S1 == sg.s1[2]
        S2 == sg.s2[2]
        m == MergeLoop([g |-> sg.g, new |-> <<>>, i1 |-> 0, i2 |-> 0,
                        n1 |-> S1[1], n2 |-> S2[1], normal |-> x.normal],
                       sg.subset, 1, S1, S2, p1)
        g1 == AddTrails(AddLeads(m.g, sg.s1, sg.s2, sg.subset, m.new),
                        sg.s1, sg.s2, sg.subset, m.new)
        merged == g1.nextWay
        g2 == simplify(add_new_way(g1, m.new, DefaultType), merged, 1, 10)
        order == IF p0 = p1 THEN <<p0>> ELSE IF rev THEN <<p1, p0>> ELSE <<p0, p1>>
    IN  [g |-> IF Ok(m.g) THEN RemoveMerged(g2, order, 1) ELSE m.g, normal |-> m.normal]

\* the body of "for pair in parallel_pairs"
MergeOne(x, p0, p1, rev) ==
    IF ~({p0, p1} \subseteq DOMAIN x.g.ways) THEN [x EXCEPT !.g = Raise(@, WaysMiss)]
    ELSE LET sg == segment_parallel_streets(x.g, p0, p1)
         IN  IF ~Ok(sg.g) \/ sg.subset = <<>> THEN [x EXCEPT !.g = sg.g]
             ELSE IF sg.s1[2] = <<>> \/ sg.s2[2] = <<>> THEN [x EXCEPT !.g = sg.g]
             ELSE IF ~({sg.s1[2][1], sg.s2[2][1], Last(sg.s1[2]), Last(sg.s2[2])}
                         \subseteq DOMAIN sg.g.nodes)
             THEN [x EXCEPT !.g = Raise(sg.g, "AttributeError")]
             ELSE MergePair(x, p0, p1, sg, rev)

RECURSIVE MergePairsLoop(_, _, _, _)
MergePairsLoop(x, pairs, i, rev) ==
    IF i > Len(pairs) \/ ~Ok(x.g) THEN x
    ELSE MergePairsLoop(MergeOne(x, pairs[i][1], pairs[i][2], rev), pairs, i + 1, rev)

\* OSM.merge_parallel_street_segments(parallel_pairs)
merge_parallel_street_segments(g, pairs, rev) ==
    IF ~Ok(g) THEN g ELSE MergePairsLoop([g |-> g, normal |-> FALSE], pairs, 1, rev).g

\* distance_threshold of merge_nodes, in thousandths of a degree
MergeThreshold == 15

\* start.distance_to(target) < distance_threshold (latlng.py: the planar
\* distance between two locations)
DistanceBelow(p, q) ==
    (IF p[2] >= q[2] THEN p[2] - q[2] ELSE q[2] - p[2]) < MergeThreshold

\* self.nodes.get(nid) and its location: None when the node is not stored
LocationOrNone(g, nid) == IF nid \in DOMAIN g.nodes THEN Location(g, nid) ELSE "None"

\* one of the two loops of merge_nodes over interior nodes of a street: the
\* nodes closer to the end node than the threshold are removed, up to the
\* first that is not
RECURSIVE MergeNodesRun(_, _, _, _)
MergeNodesRun(g, end, nids, i) ==
    IF i > Len(nids) \/ ~Ok(g) THEN g
    ELSE IF end = "None" \/ nids[i] \notin DOMAIN g.nodes THEN Raise(g, "AttributeError")
    ELSE IF DistanceBelow(end, Location(g, nids[i]))
    THEN MergeNodesRun(remove_node(g, nids[i]), end, nids, i + 1)
    ELSE g

\* the body of merge_nodes for one street
MergeNodesStreet(g, wid) ==
    IF ~Ok(g) THEN g
    ELSE LET nids == g.ways[wid].nids
         IN  IF Len(nids) <= 2 THEN g
             ELSE LET g1 == MergeNodesRun(g, LocationOrNone(g, nids[1]),
                                          Slice(nids, 1, Len(nids) - 1), 1)
                      left == g1.ways[wid].nids
                  IN  IF ~Ok(g1) \/ Len(left) <= 2 THEN g1
                      ELSE MergeNodesRun(g1, LocationOrNone(g, Last(nids)),
                                         Reverse(Slice(left, 1, Len(left) - 1)), 1)

\* OSM.merge_nodes, the ways listed in the given order
RECURSIVE merge_nodes(_, _, _)
merge_nodes(g, order, i) ==
    IF i > Len(order) \/ ~Ok(g) THEN g
    ELSE merge_nodes(MergeNodesStreet(g, order[i]), order, i + 1)

\* the last loop of preprocess with the length test off by one: only empty
\* ways are removed
RECURSIVE PruneBelowOne(_, _, _)
PruneBelowOne(g, order, i) ==
    IF i > Len(order) \/ ~Ok(g) THEN g
    ELSE IF Len(g.ways[order[i]].nids) < 1
    THEN PruneBelowOne(remove_way(g, order[i]), order, i + 1)
    ELSE PruneBelowOne(g, order, i + 1)

\* the last loop of preprocess: ways of fewer than 2 nodes are removed
RECURSIVE PruneLoop(_, _, _)
PruneLoop(g, order, i) ==
    IF i > Len(order) \/ ~Ok(g) THEN g
    ELSE IF Len(g.ways[order[i]].nids) < 2
    THEN PruneLoop(remove_way(g, order[i]), order, i + 1)
    ELSE PruneLoop(g, order, i + 1)

(***************************************************************************)
(* The state machine.  G is the graph the program holds; an operation      *)
(* computes the graph it leaves and Commit stores it.  op names the last   *)
(* public operation called and its arguments.  Once an exception has       *)
(* escaped an operation the run is over.                                   *)
(***************************************************************************)
G == [nodes |-> nodes, ways |-> ways, nextWay |-> nextWay, exc |-> exc]

Called(name, a, b) == [name |-> name, a |-> a, b |-> b]

Commit(g, o) ==
    /\ nodes' = g.nodes
    /\ ways' = g.ways
    /\ nextWay' = g.nextWay
    /\ exc' = g.exc
    /\ op' = o

\* positions of the ingested nodes, in thousandths of a degree of longitude
\* and in rows: the nodes follow one another eastwards, one row after another
Rows == 3

LatOf(n) == n % Rows
LngOf(n) == 10 * n

\* node sequences of the ways handed to add_way: walks over the node ids with
\* no two consecutive nodes equal (a walk may come back to a node it visited),
\* ordered as parse orders them: the first node is not east of the last
WaySeqs ==
    UNION {{s \in [1..k -> Nids] :
              /\ \A i \in 1..(k - 1) : s[i] # s[i + 1]
              /\ LngOf(s[1]) <= LngOf(s[k])} : k \in 2..MaxLen}

EmptyGraph == [nodes |-> <<>>, ways |-> <<>>, nextWay |-> 1, exc |-> NoExc]

RECURSIVE AddNodes(_, _)
AddNodes(g, n) ==
    IF n = 0 THEN g ELSE add_node(AddNodes(g, n - 1), n, NewNode(LatOf(n), LngOf(n)))

\* parse: every node is added, then every way in turn, numbered from 1
RECURSIVE AddWays(_, _, _)
AddWays(g, ws, i) ==
    IF i > Len(ws) THEN g ELSE AddWays(add_new_way(g, ws[i], "residential"), ws, i + 1)

Build(ws) == AddWays(AddNodes(EmptyGraph, MaxNode), ws, 1)

WayLists == UNION {[1..k -> WaySeqs] : k \in 0..MaxWay}

InitGraph(g) ==
    /\ nodes = g.nodes
    /\ ways = g.ways
    /\ nextWay = g.nextWay
    /\ exc = g.exc
    /\ op = Called("init", 0, 0)
    /\ steps = 0
    /\ parallel = <<>>
    /\ simp = <<>>

\* the graph as parse leaves it
Init ==
    /\ \E ws \in WayLists : InitGraph(Build(ws))
    /\ pc = "store"

Running == exc = NoExc /\ pc = "store" /\ steps < MaxSteps

Step == steps' = steps + 1 /\ UNCHANGED <<pc, parallel, simp>>

AddNodeOp ==
    /\ Running
    /\ \E n \in Nids \ DOMAIN nodes :
         Commit(add_node(G, n, NewNode(LatOf(n), LngOf(n))), Called("add_node", n, 0))
    /\ Step

AddWayOp ==
    /\ Running
    /\ nextWay <= MaxWay
    /\ \E s \in WaySeqs :
         Commit(add_new_way(G, s, "residential"), Called("add_way", nextWay, 0))
    /\ Step

RemoveNodeOp ==
    /\ Running
    /\ \E n \in DOMAIN nodes : Commit(remove_node(G, n), Called("remove_node", n, 0))
    /\ Step

RemoveWayOp ==
    /\ Running
    /\ \E w \in DOMAIN ways : Commit(remove_way(G, w), Called("remove_way", w, 0))
    /\ Step

JoinWaysOp ==
    /\ Running
    /\ \E a \in AnyWid : \E b \in AnyWid \ {a} :
         Commit(join_ways(G, a, b), Called("join_ways", a, b))
    /\ Step

SwapNodesOp ==
    /\ Running
    /\ \E from \in Nids : \E to \in (DOMAIN nodes) \ {from} :
         Commit(swap_nodes(G, from, to), Called("swap_nodes", from, to))
    /\ Step

Next ==
    \/ AddNodeOp
    \/ AddWayOp
    \/ RemoveNodeOp
    \/ RemoveWayOp
    \/ JoinWaysOp
    \/ SwapNodesOp

Spec == Init /\ [][Next]_vars

\* the operations on ways alone
NextWays ==
    \/ AddWayOp
    \/ RemoveWayOp
    \/ JoinWaysOp

SpecWays == Init /\ [][NextWays]_vars

\* update_ways called between the operations of the store; the call records
\* whether some node's way_ids differed from the ways that contain it
UpdateWaysCall ==
    /\ Running
    /\ \E order \in Perms(DOMAIN ways) :
         Commit(update_ways(G, order),
                Called("update_ways",
                       IF \A n \in DOMAIN nodes :
                             Range(nodes[n].way_ids) =
                               {w \in DOMAIN ways : n \in Range(ways[w].nids)}
                       THEN 0 ELSE 1,
                       0))
    /\ Step

NextUpdate ==
    \/ Next
    \/ UpdateWaysCall

SpecUpdate == Init /\ [][NextUpdate]_vars

\* add_way, join_ways, remove_way and update_ways in any order
NextAdjacency ==
    \/ NextWays
    \/ UpdateWaysCall

SpecAdjacency == Init /\ [][NextAdjacency]_vars

(***************************************************************************)
(* split_streets and clean_street_segmentation, run on parsed graphs.      *)
(***************************************************************************)
SplitNodes == 4
SplitLen == 5
SplitTotal == 6

\* ways of the graphs split_streets is run on
SplitSeqs ==
    UNION {{s \in [1..k -> 1..SplitNodes] :
              /\ \A i \in 1..(k - 1) : s[i] # s[i + 1]
              /\ LngOf(s[1]) <= LngOf(s[k])} : k \in 2..SplitLen}

SplitLists ==
    {<<s>> : s \in SplitSeqs}
      \cup {p \in [1..2 -> SplitSeqs] : Len(p[1]) + Len(p[2]) <= SplitTotal}

InitSplit ==
    /\ \E ws \in SplitLists : InitGraph(AddWays(AddNodes(EmptyGraph, SplitNodes), ws, 1))
    /\ pc = "store"

SplitStreetsOp ==
    /\ Running
    /\ \E order \in Perms(DOMAIN ways) :
         Commit(split_streets(G, order, 1), Called("split_streets", 0, 0))
    /\ Step

SpecSplit == InitSplit /\ [][SplitStreetsOp]_vars

CleanOp ==
    /\ Running
    /\ \E order \in Perms(DOMAIN nodes) :
         Commit(clean_street_segmentation(G, order, 1), Called("clean_street_segmentation", 0, 0))
    /\ Step

SpecClean == Init /\ [][CleanOp]_vars

(***************************************************************************)
(* merge_nodes, run on parsed graphs.                                      *)
(***************************************************************************)
MergeNodesCall ==
    /\ Running
    /\ \E order \in Perms(DOMAIN ways) :
         Commit(merge_nodes(G, order, 1), Called("merge_nodes", 0, 0))
    /\ Step

SpecMergeNodes == InitSplit /\ [][MergeNodesCall]_vars

(***************************************************************************)
(* simplify, run on one parsed way, a pass of its while loop at a time.    *)
(* simp holds the locals of the call.                                      *)
(***************************************************************************)
SimpNodes == 5
SimpLen == 5

\* thresholds simplify is called with, as numerator and denominator
Thresholds == {<<0, 1>>, <<1, 10>>, <<1, 2>>, <<3, 4>>, <<1, 1>>, <<3, 2>>}

SimpSeqs ==
    UNION {{s \in [1..k -> 1..SimpNodes] : \A i \in 1..(k - 1) : s[i] # s[i + 1]} :
             k \in 2..SimpLen}

InitSimplify ==
    /\ \E s \in SimpSeqs : InitGraph(AddWays(AddNodes(EmptyGraph, SimpNodes), <<s>>, 1))
    /\ pc = "simplify"

\* simplify is called: nodes, latlngs, groups, dict and heap are built
SimplifyEnter ==
    /\ pc = "simplify"
    /\ \E wid \in DOMAIN ways : \E th \in Thresholds :
         /\ op' = Called("simplify", th[1], th[2])
         /\ IF Range(ways[wid].nids) \subseteq DOMAIN nodes
            THEN /\ simp' = SimplifyLocals(G, wid, th[1], th[2])
                 /\ pc' = "loop"
                 /\ exc' = exc
            ELSE /\ simp' = simp
                 /\ pc' = "raised"
                 /\ exc' = "AttributeError"
    /\ steps' = steps + 1
    /\ UNCHANGED <<nodes, ways, nextWay, parallel>>

\* one pass of the while loop: heappop, the two updates, heapify
SimplifyPop ==
    /\ pc = "loop"
    /\ SimplifyGoesOn(simp)
    /\ simp.heap # {}
    /\ \E idx \in Smallest(simp) : simp' = Relink(simp, idx)
    /\ steps' = steps + 1
    /\ UNCHANGED <<nodes, ways, nextWay, exc, op, pc, parallel>>

\* the loop ends, by its test or by the IndexError of heappop on an empty
\* heap, and the way takes new_nids
SimplifyReturn ==
    /\ pc = "loop"
    /\ ~(SimplifyGoesOn(simp) /\ simp.heap # {})
    /\ ways' = [ways EXCEPT ![simp.wid].nids = NewNids(@, simp.heap)]
    /\ pc' = "returned"
    /\ steps' = steps + 1
    /\ UNCHANGED <<nodes, nextWay, exc, op, parallel, simp>>

NextSimplify ==
    \/ SimplifyEnter
    \/ SimplifyPop
    \/ SimplifyReturn

SpecSimplify == InitSimplify /\ [][NextSimplify]_vars

(***************************************************************************)
(* find_parallel_street_segments, run on two parsed ways of the plane: a   *)
(* centre node and a node one step east, north, west and south of it.      *)
(***************************************************************************)
Compass == <<(<<0, 0>>), (<<0, 1>>), (<<1, 0>>), (<<0, 0 - 1>>), (<<0 - 1, 0>>)>>

PlaneLen == 3

RECURSIVE AddPlaneNodes(_, _)
AddPlaneNodes(g, n) ==
    IF n = 0 THEN g
    ELSE add_node(AddPlaneNodes(g, n - 1), n, NewNode(Compass[n][1], Compass[n][2]))

\* the ways of the file: no node twice in a way
PlaneSeqs ==
    UNION {{s \in [1..k -> DOMAIN Compass] : \A i \in 1..k : \A j \in 1..k : i # j => s[i] # s[j]} :
             k \in 2..PlaneLen}

InitDetect ==
    /\ \E ws \in [1..2 -> PlaneSeqs] :
         InitGraph(AddWays(AddPlaneNodes(EmptyGraph, Len(Compass)), ws, 1))
    /\ pc = "detect"

\* find_parallel_street_segments is called; op holds the way listed first and
\* the node list(shared_nids)[0] gives
DetectOp ==
    /\ pc = "detect"
    /\ \E order \in Perms(DOMAIN ways) : \E s \in DOMAIN nodes :
         LET r == PlaneFind(G, order, s)
         IN  /\ parallel' = r.pairs
             /\ exc' = r.exc
             /\ pc' = IF r.exc = NoExc THEN "returned" ELSE "raised"
             /\ op' = Called("find_parallel_street_segments", order[1], s)
    /\ steps' = steps + 1
    /\ UNCHANGED <<nodes, ways, nextWay, simp>>

SpecDetect == InitDetect /\ [][DetectOp]_vars

(***************************************************************************)
(* preprocess: the stages of the pipeline run one after the other on the   *)
(* parsed graph; pc is the stage preprocess is about to run and parallel  *)
(* the list of parallel pairs it holds.  A dictionary or a set is listed in    *)
(* any order when it has up to ListMax items and in either order of its    *)
(* ids when it has more.                                                   *)
(***************************************************************************)
PipeNodes == 6
PipeWays == 3
PipeLen == 3
PipeTotal == 6
ListMax == 3

RECURSIVE Ascending(_)
Ascending(S) == IF S = {} THEN <<>> ELSE <<SetMin(S)>> \o Ascending(S \ {SetMin(S)})

Listings(S) ==
    IF Cardinality(S) <= ListMax THEN Perms(S) ELSE {Ascending(S), Reverse(Ascending(S))}

\* the ways of the files preprocess is run on: no node twice in a way
PipeSeqs ==
    UNION {{s \in [1..k -> 1..PipeNodes] :
              /\ \A i \in 1..k : \A j \in 1..k : i # j => s[i] # s[j]
              /\ LngOf(s[1]) <= LngOf(s[k])} : k \in 2..PipeLen}

RECURSIVE TotalLen(_)
TotalLen(ws) == IF ws = <<>> THEN 0 ELSE Len(ws[1]) + TotalLen(Tail(ws))

\* a way as a number, to put the ways of a file in one order: the order of
\* the ways in the file only names them
RECURSIVE SeqCode(_)
SeqCode(s) == IF s = <<>> THEN 0 ELSE s[1] + (PipeNodes + 1) * SeqCode(Tail(s))

PipeLists ==
    UNION {{ws \in [1..k -> PipeSeqs] :
              /\ TotalLen(ws) <= PipeTotal
              /\ \A i \in 1..(k - 1) : SeqCode(ws[i]) <= SeqCode(ws[i + 1])} : k \in 1..PipeWays}

InitPipe ==
    /\ \E ws \in PipeLists : InitGraph(AddWays(AddNodes(EmptyGraph, PipeNodes), ws, 1))
    /\ pc = "find"

\* a stage of preprocess has run: the next stage, or none after an exception
Stage(g, name, next) ==
    /\ Commit(g, Called(name, 0, 0))
    /\ pc' = IF Ok(g) THEN next ELSE "raised"
    /\ steps' = steps + 1
    /\ UNCHANGED simp

FindParallelOp ==
    /\ pc = "find"
    /\ \E order \in Listings(DOMAIN ways) :
         \E r \in find_parallel_street_segments(G, order) :
            /\ Stage(Raise(G, r.exc), "find_parallel_street_segments", "join")
            /\ parallel' = r.pairs

JoinConnectedOp ==
    /\ pc = "join"
    /\ \E order \in Listings(Multiple(parallel)) :
         LET r == join_connected_ways(G, parallel, order)
         IN  /\ Stage(r.g, "join_connected_ways", "merge")
             /\ parallel' = r.pairs

MergeParallelOp ==
    /\ pc = "merge"
    /\ \E rev \in BOOLEAN :
         Stage(merge_parallel_street_segments(G, parallel, rev),
               "merge_parallel_street_segments", "split")
    /\ UNCHANGED parallel

SplitStage ==
    /\ pc = "split"
    /\ \E order \in Listings(DOMAIN ways) :
         Stage(split_streets(G, order, 1), "split_streets", "update")
    /\ UNCHANGED parallel

UpdateWaysOp ==
    /\ pc = "update"
    /\ \E order \in Listings(DOMAIN ways) :
         Stage(update_ways(G, order), "update_ways", "merge_nodes")
    /\ UNCHANGED parallel

MergeNodesOp ==
    /\ pc = "merge_nodes"
    /\ \E order \in Listings(DOMAIN ways) :
         Stage(merge_nodes(G, order, 1), "merge_nodes", "clean")
    /\ UNCHANGED parallel

CleanStage ==
    /\ pc = "clean"
    /\ \E order \in Listings(DOMAIN nodes) :
         Stage(clean_street_segmentation(G, order, 1), "clean_street_segmentation", "prune")
    /\ UNCHANGED parallel

\* the last loop of preprocess; a is the number of ways it met with fewer
\* than 2 nodes
PruneOp ==
    /\ pc = "prune"
    /\ \E order \in Listings(DOMAIN ways) :
         LET g == PruneLoop(G, order, 1)
         IN  /\ Commit(g, Called("prune",
                                 Cardinality({w \in DOMAIN ways : Len(ways[w].nids) < 2}), 0))
             /\ pc' = IF Ok(g) THEN "returned" ELSE "raised"
             /\ steps' = steps + 1
    /\ UNCHANGED <<parallel, simp>>

NextPipe ==
    \/ FindParallelOp
    \/ JoinConnectedOp
    \/ MergeParallelOp
    \/ SplitStage
    \/ UpdateWaysOp
    \/ MergeNodesOp
    \/ CleanStage
    \/ PruneOp

SpecPipe == InitPipe /\ [][NextPipe]_vars

(***************************************************************************)
(* split_streets, update_ways and clean_street_segmentation run one after  *)
(* the other on a parsed graph, as preprocess runs them.                   *)
(***************************************************************************)
TidyNodes == 4
TidyWays == 3
TidyLen == 3
TidyTotal == 7

\* the ways of the files: no node twice in a way
TidySeqs ==
    UNION {{s \in [1..k -> 1..TidyNodes] :
              /\ \A i \in 1..k : \A j \in 1..k : i # j => s[i] # s[j]
              /\ LngOf(s[1]) <= LngOf(s[k])} : k \in 2..TidyLen}

TidyLists ==
    UNION {{ws \in [1..k -> TidySeqs] : TotalLen(ws) <= TidyTotal} : k \in 1..TidyWays}

InitTidy ==
    /\ \E ws \in TidyLists : InitGraph(AddWays(AddNodes(EmptyGraph, TidyNodes), ws, 1))
    /\ pc = "tidy_split"

TidySplit ==
    /\ pc = "tidy_split"
    /\ \E order \in Listings(DOMAIN ways) :
         Stage(split_streets(G, order, 1), "split_streets", "tidy_update")
    /\ UNCHANGED parallel

TidyUpdate ==
    /\ pc = "tidy_update"
    /\ \E order \in Listings(DOMAIN ways) :
         Stage(update_ways(G, order), "update_ways", "tidy_clean")
    /\ UNCHANGED parallel

TidyClean ==
    /\ pc = "tidy_clean"
    /\ \E order \in Perms(DOMAIN nodes) :
         Stage(clean_street_segmentation(G, order, 1), "clean_street_segmentation", "tidied")
    /\ UNCHANGED parallel

NextTidy ==
    \/ TidySplit
    \/ TidyUpdate
    \/ TidyClean

SpecTidy == InitTidy /\ [][NextTidy]_vars

(***************************************************************************)
(* Properties of the graph store.                                          *)
(***************************************************************************)
\* the graph the step leaves
GNext == [nodes |-> nodes', ways |-> ways', nextWay |-> nextWay', exc |-> exc']

WaysContaining(g, n) == {w \in DOMAIN g.ways : n \in Range(g.ways[w].nids)}

\* invariant 2: a node lists exactly the ways whose sequence contains it
RefIntegrity(g) ==
    \A n \in DOMAIN g.nodes : Range(g.nodes[n].way_ids) = WaysContaining(g, n)

\* invariant 1: every node a way references is in the node store
NoDangling(g) == \A w \in DOMAIN g.ways : Range(g.ways[w].nids) \subseteq DOMAIN g.nodes

Consistent(g) == RefIntegrity(g) /\ NoDangling(g)

\* C1: after any sequence of add_node, add_way, remove_node, remove_way,
\* join_ways and swap_nodes that started from a graph with referential
\* integrity, every node lists exactly the ways whose sequence contains it.
C1_ReferentialIntegrity == exc = NoExc => RefIntegrity(G)

\* C2: after any sequence of public operations that started from a graph
\* without dangling references, every node id in a stored way's sequence is in
\* the node store.
C2_NoDanglingReference == exc = NoExc => NoDangling(G)

RemoveWayPost(g, h, w) ==
    /\ h.exc = NoExc
    /\ w \notin DOMAIN h.ways
    /\ \A n \in DOMAIN h.nodes : w \notin Range(h.nodes[n].way_ids)
    /\ \A n \in Range(g.ways[w].nids) :
         n \in DOMAIN h.nodes <=> WaysContaining(g, n) \ {w} # {}
    /\ \A n \in (DOMAIN g.nodes) \ Range(g.ways[w].nids) :
         n \in DOMAIN h.nodes /\ h.nodes[n] = g.nodes[n]
    /\ \A v \in (DOMAIN g.ways) \ {w} : v \in DOMAIN h.ways /\ h.ways[v] = g.ways[v]

\* C4: remove_way(w) on a graph with referential integrity leaves w out of the
\* way store and out of every node's incident ways, keeps a node of w exactly
\* when another way contains it, and changes nothing else.
C4_RemoveWayContract ==
    [][(op'.name = "remove_way" /\ Consistent(G)) => RemoveWayPost(G, GNext, op'.a)]_vars

JoinWaysPost(g, h, a, b) ==
    /\ h.exc = NoExc
    /\ b \notin DOMAIN h.ways
    /\ \A n \in DOMAIN h.nodes : b \notin Range(h.nodes[n].way_ids)
    /\ \A n \in Range(g.ways[b].nids) : n \in DOMAIN h.nodes /\ a \in Range(h.nodes[n].way_ids)
    /\ \A v \in (DOMAIN g.ways) \ {b} : v \in DOMAIN h.ways /\ h.ways[v] = g.ways[v]

\* C5: join_ways(a, b) with both ways present (on a graph with referential
\* integrity) removes b from the way store and from every node's incident
\* ways, makes every node of b list a, and leaves every other way's sequence
\* as it was.
C5_JoinWaysContract ==
    [][(/\ op'.name = "join_ways"
        /\ op'.a # op'.b
        /\ {op'.a, op'.b} \subseteq DOMAIN ways
        /\ Consistent(G)) => JoinWaysPost(G, GNext, op'.a, op'.b)]_vars

\* C6: join_ways(a, b) with a or b missing from the way store is skipped:
\* no exception escapes and nodes and ways are left as they were.
C6_JoinWaysMissingSkipped ==
    [][(op'.name = "join_ways" /\ ~({op'.a, op'.b} \subseteq DOMAIN ways))
          => (exc' = NoExc /\ nodes' = nodes /\ ways' = ways)]_vars

(***************************************************************************)
(* Properties of split_streets and clean_street_segmentation.              *)
(***************************************************************************)
\* the nodes of a way that are intersections
Junctions(g, w) == {n \in Range(g.ways[w].nids) : is_intersection(g.nodes[n])}

\* every visit of the way to a junction is strictly inside its node sequence
AllInterior(g, w) ==
    LET s == g.ways[w].nids
    IN  s[1] \notin Junctions(g, w) /\ s[Len(s)] \notin Junctions(g, w)

\* ways b .. b+k of h laid end to end, a shared end node counted once
RECURSIVE Chain(_, _, _)
Chain(h, b, k) ==
    IF k = 0 THEN h.ways[b].nids ELSE Chain(h, b, k - 1) \o Tail(h.ways[b + k].nids)

\* the ways b .. b+k of h are the way w of g cut at its junctions
IsSplitOf(g, h, w, b, k) ==
    /\ \A i \in b..(b + k) : i \in DOMAIN h.ways /\ h.ways[i].nids # <<>>
    /\ \A i \in b..(b + k - 1) :
         /\ h.ways[i].nids[Len(h.ways[i].nids)] = h.ways[i + 1].nids[1]
         /\ h.ways[i + 1].nids[1] \in Junctions(g, w)
    /\ \A n \in Junctions(g, w) : \E i \in b..(b + k - 1) : h.ways[i + 1].nids[1] = n
    /\ Chain(h, b, k) = g.ways[w].nids

SplitPost(g, h, w) ==
    LET k == Cardinality(Junctions(g, w))
    IN  /\ h.exc = NoExc
        /\ w \notin DOMAIN h.ways
        /\ \E b \in g.nextWay..(h.nextWay - 1) : IsSplitOf(g, h, w, b, k)
        /\ Cardinality(DOMAIN g.ways) = 1 => h.nextWay = g.nextWay + k + 1

\* C8: split_streets replaces a way that has k >= 1 junction nodes, all
\* strictly interior, by exactly k+1 sub-ways: the way is removed, every
\* junction ends one sub-way and starts the next, and the sub-ways laid end to
\* end (shared junctions counted once) are the original node sequence.
C8_SplitAtInteriorJunctions ==
    [][op'.name = "split_streets" =>
         \A w \in DOMAIN ways :
            (Junctions(G, w) # {} /\ AllInterior(G, w)) => SplitPost(G, GNext, w)]_vars

\* how many ways of the listed ids have the node sequence s
CountSeq(ws, ids, s) ==
    Cardinality({i \in DOMAIN ids : ids[i] \in DOMAIN ws /\ ws[ids[i]].nids = s})

AllIds(ws) == [i \in DOMAIN ws |-> i]

AllSeqs(g, h) == {g.ways[w].nids : w \in DOMAIN g.ways} \cup {h.ways[w].nids : w \in DOMAIN h.ways}

\* g and h hold the same collection of way node sequences, and every node has
\* the same incident ways up to the renaming of a way
SameStreets(g, h) ==
    /\ \A s \in AllSeqs(g, h) : CountSeq(g.ways, AllIds(g.ways), s) = CountSeq(h.ways, AllIds(h.ways), s)
    /\ DOMAIN g.nodes = DOMAIN h.nodes
    /\ \A n \in DOMAIN g.nodes : \A s \in AllSeqs(g, h) :
         CountSeq(g.ways, g.nodes[n].way_ids, s) = CountSeq(h.ways, h.nodes[n].way_ids, s)

\* C9: a run of split_streets immediately after another run of it adds no way
\* and removes no way: the collection of way node sequences and every node's
\* incident ways are as the first run left them.
C9_SplitIdempotent ==
    [][(op.name = "split_streets" /\ op'.name = "split_streets")
          => (exc' = NoExc /\ SameStreets(G, GNext))]_vars

\* nid is an end of exactly the two distinct ways w1 and w2, and no other
\* node of the graph has two incident ways
TwoWayNode(g, nid, w1, w2) ==
    /\ DOMAIN g.ways = {w1, w2} /\ w1 # w2
    /\ g.nodes[nid].way_ids = <<w1, w2>>
    /\ \A w \in {w1, w2} :
         /\ Count(g.ways[w].nids, nid) = 1
         /\ nid \in {g.ways[w].nids[1], g.ways[w].nids[Len(g.ways[w].nids)]}
    /\ \A n \in (DOMAIN g.nodes) \ {nid} : Len(g.nodes[n].way_ids) < 2

\* the way s turned so that it ends at nid, or so that it starts at nid
EndingAt(s, nid) == IF s[Len(s)] = nid THEN s ELSE Reverse(s)
StartingAt(s, nid) == IF s[1] = nid THEN s ELSE Reverse(s)

\* s1 and s2 traversed end to end through nid, in either direction
Fusions(s1, s2, nid) ==
    {EndingAt(s1, nid) \o Tail(StartingAt(s2, nid)),
     EndingAt(s2, nid) \o Tail(StartingAt(s1, nid))}

FusePost(g, h, nid, w1, w2) ==
    /\ h.exc = NoExc
    /\ DOMAIN h.ways = {g.nextWay}
    /\ LET s == h.ways[g.nextWay].nids
       IN  /\ Len(s) = Len(g.ways[w1].nids) + Len(g.ways[w2].nids) - 1
           /\ Count(s, nid) = 1
           /\ s \in Fusions(g.ways[w1].nids, g.ways[w2].nids, nid)
           /\ Range(s) = Range(g.ways[w1].nids) \cup Range(g.ways[w2].nids)

\* C10: for a node that is an end of exactly two distinct ways W1 and W2,
\* clean_street_segmentation removes W1 and W2 and adds one way of
\* len(W1)+len(W2)-1 nodes that holds the shared node once and is W1 and W2
\* traversed end to end through it, whichever ends of the two ways meet.
C10_TwoWayFusion ==
    [][op'.name = "clean_street_segmentation" =>
         \A nid \in DOMAIN nodes : \A w1 \in DOMAIN ways : \A w2 \in DOMAIN ways :
            TwoWayNode(G, nid, w1, w2) => FusePost(G, GNext, nid, w1, w2)]_vars

(***************************************************************************)
(* Properties of preprocess.                                               *)
(***************************************************************************)
\* C3: when preprocess returns, every way in the way store has a node
\* sequence of at least 2 nodes.
C3_NoDegenerateWays ==
    pc = "returned" => \A w \in DOMAIN ways : Len(ways[w].nids) >= 2

\* preprocess has returned and its final loop met a way of fewer than 2 nodes.
C3_PrunedAndReturned ==
    pc = "returned" /\ op.name = "prune" /\ op.a > 0

\* C7: a pair of join_connected_ways or merge_parallel_street_segments that
\* names a way which is no longer stored is abandoned: the failed lookup
\* does not escape the stage, which goes on with the pairs that remain.
C7_MissingReferenceNonFatal ==
    [][op'.name \in {"join_connected_ways", "merge_parallel_street_segments"}
          => exc' # WaysMiss]_vars

(***************************************************************************)
(* Properties of merge_nodes.                                              *)
(***************************************************************************)
\* the first and last nodes of the ways of g
Endpoints(g) ==
    UNION {{g.ways[w].nids[1], Last(g.ways[w].nids)} :
             w \in {v \in DOMAIN g.ways : g.ways[v].nids # <<>>}}

EndpointsKept(g, h) ==
    /\ \A w \in DOMAIN g.ways :
          g.ways[w].nids # <<>> =>
             /\ w \in DOMAIN h.ways
             /\ h.ways[w].nids # <<>>
             /\ h.ways[w].nids[1] = g.ways[w].nids[1]
             /\ Last(h.ways[w].nids) = Last(g.ways[w].nids)
    /\ \A n \in Endpoints(g) : n \in DOMAIN g.nodes => n \in DOMAIN h.nodes

\* C11: merge_nodes never removes an endpoint: when it returns, every way has
\* the first node and the last node it had before, and no node that was the
\* first or last node of a way has left the node store.
C11_MergeNodesKeepsEndpoints ==
    [][(op'.name = "merge_nodes" /\ exc' = NoExc) => EndpointsKept(G, GNext)]_vars

\* the length of the longest run of nodes at the head of s that are closer to
\* the location p than the threshold
RunBelow(g, p, s) ==
    LET far == {i \in 1..Len(s) : ~DistanceBelow(p, Location(g, s[i]))}
    IN  IF far = {} THEN Len(s) ELSE SetMin(far) - 1

\* the sequence the way w of g is to have after merge_nodes: the run of
\* interior nodes next to the first node goes, then the run of the interior
\* nodes that remain next to the last node
MergedNids(g, w) ==
    LET nids == g.ways[w].nids
    IN  IF Len(nids) <= 2 THEN nids
        ELSE LET interior == Slice(nids, 1, Len(nids) - 1)
                 lead == RunBelow(g, Location(g, nids[1]), interior)
                 rest == SubSeq(interior, lead + 1, Len(interior))
                 trail == RunBelow(g, Location(g, Last(nids)), Reverse(rest))
             IN  <<nids[1]>> \o SubSeq(rest, 1, Len(rest) - trail) \o <<Last(nids)>>

\* C12: merge_nodes takes from each way of more than 2 nodes exactly the run
\* of interior nodes next to its first node that are closer to it than the
\* threshold and the run of the remaining interior nodes next to its last
\* node that are closer to it than the threshold; a node behind the first
\* node that is not below the threshold stays, and ways of 2 or fewer nodes
\* are untouched.
C12_MergeNodesRuns ==
    [][(op'.name = "merge_nodes" /\ exc' = NoExc) =>
         \A w \in DOMAIN ways :
            Range(ways[w].nids) \subseteq DOMAIN nodes =>
               (w \in DOMAIN ways' /\ ways'[w].nids = MergedNids(G, w))]_vars

(***************************************************************************)
(* Properties of simplify.                                                 *)
(***************************************************************************)
Simplified == pc = "returned" /\ op.name = "simplify"

\* the items of t at the positions K, in the order of t
Pick(t, K) ==
    LET pos == SelectSeq([i \in 1..Len(t) |-> i], LAMBDA i : i \in K)
    IN  [j \in DOMAIN pos |-> t[pos[j]]]

\* s is t with some of its items left out, the first and the last kept
KeepsEnds(s, t) ==
    \E K \in SUBSET (1..Len(t)) : 1 \in K /\ Len(t) \in K /\ s = Pick(t, K)

\* C13: simplify leaves a way of N >= 2 nodes, for any threshold, with a
\* subsequence of its nodes (same order, no id added or repeated) that begins
\* with the original first node and ends with the original last node.
C13_SimplifyKeepsEndpoints ==
    (Simplified /\ simp.N >= 2) => KeepsEnds(ways[simp.wid].nids, simp.nids)

\* simplify has returned from a way it took some interior nodes from and left
\* some in
C13_SomeRemovedSomeKept ==
    /\ Simplified
    /\ Len(ways[simp.wid].nids) < simp.N
    /\ Len(ways[simp.wid].nids) > 2

\* C14: for a threshold t in (0, 1] and a way of N >= 2 nodes, simplify
\* removes no node whose removal takes remaining / N below t: the way is left
\* with at least ceil(t * N) nodes.
C14_SimplifierBound ==
    (Simplified /\ simp.N >= 2 /\ 0 < simp.num /\ simp.num <= simp.den)
       => Len(ways[simp.wid].nids) * simp.den >= simp.num * simp.N

\* the window an interior vertex has when the chain is relinked: the nearest
\* vertex left below it and the nearest left above it, the endpoints included
Linked(l, i) ==
    /\ l.dict[i].prev = SetMax({0} \cup {j \in l.heap : j < i})
    /\ l.dict[i].next = SetMin({l.N - 1} \cup {j \in l.heap : j > i})

\* C20: during simplify, after every removal, each interior vertex still in
\* the queue has a window whose left index is the nearest surviving vertex
\* below it and whose right index is the nearest surviving vertex above it.
C20_SimplifierRelinking ==
    (pc = "loop" /\ op.name = "simplify") => \A i \in simp.heap : Linked(simp, i)

(***************************************************************************)
(* Properties of find_parallel_street_segments.                            *)
(***************************************************************************)
\* the pairs of a list as sets of way ids
Unordered(pairs) == {{pairs[i][1], pairs[i][2]} : i \in DOMAIN pairs}

AdjacentTo(nids, s) == IF nids[1] = s THEN nids[2] ELSE nids[Len(nids) - 1]

\* the two ways of g are a parallel candidate and share the node s alone,
\* which is the first or last node of each
TouchAt(g, s) ==
    LET n1 == g.ways[1].nids
        n2 == g.ways[2].nids
    IN  /\ Range(n1) \cap Range(n2) = {s}
        /\ s \in {n1[1], Last(n1)}
        /\ s \in {n2[1], Last(n2)}
        /\ PlaneCandidate(<<Location(g, n1[1]), Location(g, Last(n1))>>,
                          <<Location(g, n2[1]), Location(g, Last(n2))>>)

\* the bearings from s to its neighbour in each of the two ways differ by
\* more than 90 degrees
BearingsApart(g, s) ==
    Abs(angle_to(g, s, AdjacentTo(g.ways[1].nids, s))
          - angle_to(g, s, AdjacentTo(g.ways[2].nids, s))) > 90

\* C16: a candidate whose ways share an endpoint node is discarded exactly
\* when the bearings from the shared node to the node next to it in each way
\* differ by more than 90 degrees, at whichever end of each way the shared
\* node is and whatever the signs of the bearings.
C16_JunctionTouchFilter ==
    [][(pc = "detect" /\ op'.name = "find_parallel_street_segments") =>
         \A s \in DOMAIN nodes :
            TouchAt(G, s) => ((parallel' = <<>>) <=> BearingsApart(G, s))]_vars

(***************************************************************************)
(* Properties of join_connected_ways.                                      *)
(***************************************************************************)
\* the pairs of a list that name none of the ways in gone
Without(pairs, gone) == SelectSeq(pairs, LAMBDA p : p[1] \notin gone /\ p[2] \notin gone)

\* C17: join_connected_ways returns the pairs it was given, in their order,
\* without exactly the pairs that name a way consumed by a join, and every way
\* named in a returned pair is in the way store when it returns.
C17_JoinReturnsLivePairs ==
    [][(op'.name = "join_connected_ways" /\ exc' = NoExc) =>
         /\ parallel' = Without(parallel, DOMAIN ways \ DOMAIN ways')
         /\ \A i \in DOMAIN parallel' : {parallel'[i][1], parallel'[i][2]} \subseteq DOMAIN ways']_vars

\* join_connected_ways has returned after a join: a way is gone and a pair
\* is left
C17_JoinedAndReturned ==
    /\ op.name = "join_connected_ways"
    /\ pc = "merge"
    /\ parallel # <<>>
    /\ Cardinality(DOMAIN ways) < nextWay - 1

(***************************************************************************)
(* Properties of merge_parallel_street_segments.                           *)
(***************************************************************************)
\* the one pair merge_parallel_street_segments is given names two stored ways
\* whose overlapping segment is found empty
EmptyOverlap(g, pairs) ==
    /\ Len(pairs) = 1
    /\ pairs[1][1] # pairs[1][2]
    /\ {pairs[1][1], pairs[1][2]} \subseteq DOMAIN g.ways
    /\ LET sg == segment_parallel_streets(g, pairs[1][1], pairs[1][2])
       IN  Ok(sg.g) /\ sg.subset = <<>>

\* C18: when the overlapping segment found for a pair is empty,
\* merge_parallel_street_segments leaves the graph as it was: no node or way
\* is added or removed and the node sequences of the two ways, their order
\* included, are unchanged.
C18_EmptyOverlapNoOp ==
    [][(op'.name = "merge_parallel_street_segments" /\ EmptyOverlap(G, parallel))
          => (exc' = NoExc /\ nodes' = nodes /\ ways' = ways)]_vars

(***************************************************************************)
(* Properties of split_streets on its own.                                 *)
(***************************************************************************)
\* C19: every sub-way split_streets adds has at least 2 nodes, for every way
\* and every placement of the junction nodes in it (interior, first node,
\* last node, or any mix).
C19_SplitAddsNoShortWay ==
    [][op'.name = "split_streets" =>
         \A w \in DOMAIN ways' : w >= nextWay => Len(ways'[w].nids) >= 2]_vars

(***************************************************************************)
(* Properties of update_ways.                                              *)
(***************************************************************************)
\* C21: whatever the nodes' way_ids were before, after update_ways every
\* node's incident ways are exactly the ways whose node sequence contains it,
\* a node in no way has an empty collection, and every node's intersection
\* threshold is 3.
C21_UpdateWaysRestores ==
    [][(op'.name = "update_ways" /\ exc' = NoExc) =>
         \A n \in DOMAIN nodes' :
            /\ Range(nodes'[n].way_ids) = WaysContaining(GNext, n)
            /\ (WaysContaining(GNext, n) = {} => nodes'[n].way_ids = <<>>)
            /\ nodes'[n].card = 3]_vars

\* update_ways has returned on a graph whose adjacency was wrong, with a node
\* in some way and a node in none
C21_StaleThenRefreshed ==
    /\ op = Called("update_ways", 1, 0)
    /\ exc = NoExc
    /\ \E n \in DOMAIN nodes : nodes[n].way_ids # <<>>
    /\ \E n \in DOMAIN nodes : nodes[n].way_ids = <<>>
\* no way id is listed twice
NoRepeat(s) == \A i, j \in DOMAIN s : s[i] = s[j] => i = j

\* C23: after any sequence of add_way, join_ways, remove_way and update_ways
\* no way id occurs more than once in a node's way_ids, so is_intersection()
\* is true exactly when the number of distinct ways whose sequence contains
\* the node is at least the node's threshold.
C23_IncidentWaysAreSet ==
    exc = NoExc =>
      \A n \in DOMAIN nodes :
         /\ NoRepeat(nodes[n].way_ids)
         /\ is_intersection(nodes[n]) <=> (Cardinality(WaysContaining(G, n)) >= nodes[n].card)
\* the consecutive node pairs of all ways
EdgesOf(g) ==
    UNION {{<<g.ways[w].nids[i], g.ways[w].nids[i + 1]>> : i \in 1..(Len(g.ways[w].nids) - 1)}
             : w \in DOMAIN g.ways}

\* C24: on a graph satisfying referential integrity split_streets creates
\* and deletes no node, and the set of consecutive node pairs taken over all
\* ways is the same after the call as before it.
C24_SplitKeepsEdges ==
    [][(op'.name = "split_streets" /\ Consistent(G))
          => /\ exc' = NoExc
             /\ DOMAIN nodes' = DOMAIN nodes
             /\ EdgesOf(GNext) = EdgesOf(G)]_vars

\* split_streets has run on a parsed graph and replaced a way by sub-ways
C24_WayRepartitioned ==
    /\ op.name = "split_streets"
    /\ steps = 1
    /\ exc = NoExc
    /\ \E w \in 1..(nextWay - 1) : w \notin DOMAIN ways
    /\ Cardinality(DOMAIN ways) >= 3
(***************************************************************************)
(* Properties of clean_street_segmentation after a split and a refresh.    *)
(***************************************************************************)
\* C22: after clean_street_segmentation completes on a split graph with
\* refreshed adjacency no node is left with exactly two incident ways, the
\* nodes visited before a later fusion changed their incident ways included.
C22_NoTwoWayNodeLeft ==
    pc = "tidied" => \A n \in DOMAIN nodes : Cardinality(Range(nodes[n].way_ids)) # 2
====
